---- MODULE Spec2Model ----
(***************************************************************************)
(* commute-weather: the forecast assessment engine.                        *)
(*                                                                         *)
(*   darksky.py   PrecipitationSample.umbrella_score, assess_location      *)
(*   util.py      is_between, retry_loop                                   *)
(*   weather.py   filter_samples, main                                     *)
(*                                                                         *)
(* Time is counted in whole hours since an epoch.  An aware datetime is a  *)
(* record [utc, tzinfo]: the instant and the UTC offset it is shown in.    *)
(* A timezone is a fixed offset in hours.  An aware time of day is a       *)
(* record [hour, tzinfo].  Probabilities, intensities, thresholds and      *)
(* scores are exact rationals: inputs are multiples of 1/Scale, a score is *)
(* a fraction [num, den] with den > 0 (floating point rounding is not      *)
(* modelled).                                                              *)
(***************************************************************************)
EXTENDS Integers, Sequences, FiniteSets, TLC

VARIABLES
    \* PrecipitationSample.umbrella_score applied to a pair of samples
    sPair, sScores,
    \* filter_samples / is_between / assess_location applied to one sample
    fSample, fNow, fBegin, fEnd, fResult,
    \* retry_loop: parameters, locals, position, and what it did
    attempts, gap, attempt, response, rpc, error, calls, sleeps,
    \* weather.py module globals and main's locals and position
    TIMEZONE, NOW, DAY_BEGIN, DAY_END, SCORE_THRESHOLD, ROUTE,
    mpc, idx, samples, umbrella, temperatures, published,
    \* history of main: indexes of the route points requested, raw samples parsed
    requested, parsed

scoreVars == <<sPair, sScores>>
filterVars == <<fSample, fNow, fBegin, fEnd, fResult>>
retryVars == <<attempts, gap, attempt, response, rpc, error, calls, sleeps>>
configVars == <<TIMEZONE, NOW, DAY_BEGIN, DAY_END, SCORE_THRESHOLD, ROUTE>>
mainVars == <<mpc, idx, samples, umbrella, temperatures, published, requested, parsed>>
vars == <<scoreVars, filterVars, retryVars, configVars, mainVars>>

\* Python's None, where a record is expected
None == [none |-> TRUE]

(***************************************************************************)
(* Bounds of the model.                                                    *)
(***************************************************************************)
\* probabilities, intensities and thresholds are multiples of 1/Scale
Scale == 10
\* largest intensity tried by the scoring specification, in 1/Scale mm
MaxIntensity == 12
\* timezone offsets tried are -MaxOffset..MaxOffset hours
MaxOffset == 1
\* instants tried by the filter specification are FirstInstant..MaxInstant
MaxInstant == 71
\* retry_loop is tried with attempts in 0..MaxAttempts
MaxAttempts == 3
\* the route has at most MaxRoute points
MaxRoute == 2

(***************************************************************************)
(* Calendar arithmetic of datetime.                                        *)
(***************************************************************************)
HoursPerDay == 24
FirstInstant == HoursPerDay

\* datetime.astimezone(tz): the same instant shown in another timezone
astimezone(dt, tz) == [utc |-> dt.utc, tzinfo |-> tz]

\* datetime.date(): the calendar day of the local wall clock
date(dt) == (dt.utc + dt.tzinfo) \div HoursPerDay

\* datetime.time(): the naive time of day of the local wall clock
time(dt) == (dt.utc + dt.tzinfo) % HoursPerDay

\* datetime.__ge__ of two aware datetimes compares the instants
datetime_ge(a, b) == a.utc >= b.utc

(***************************************************************************)
(* darksky.py: PrecipitationSample.umbrella_score                          *)
(*   1 - 1 / (probability * 10 + intensity), with probability = p/Scale    *)
(*   and intensity = i/Scale, is (10p + i - Scale) / (10p + i).            *)
(***************************************************************************)
Zero == [num |-> 0, den |-> 1]

umbrella_score(sample) ==
    IF sample.probability = 0 /\ sample.intensity = 0
    THEN Zero
    ELSE LET d == sample.probability * 10 + sample.intensity
         IN  [num |-> d - Scale, den |-> d]

\* a <= b for fractions with positive denominators
FracLeq(a, b) == a.num * b.den <= b.num * a.den

\* score >= threshold, threshold a multiple of 1/Scale
ScoreAtLeast(score, threshold) == score.num * Scale >= threshold * score.den

(***************************************************************************)
(* util.py: is_between                                                     *)
(***************************************************************************)
normalise_(datetime_, time_) ==
    LET localised == astimezone(datetime_, time_.tzinfo)
    IN  [hour |-> time(localised), tzinfo |-> time_.tzinfo]

\* time.__le__ of two times carrying the same tzinfo compares the base times
time_le(a, b) == a.hour <= b.hour

\* a faulty variant: the end of the window is excluded
is_between_ExclusiveEnd(dt_, begin, end) ==
    /\ time_le(begin, normalise_(dt_, begin))
    /\ normalise_(dt_, end).hour < end.hour
is_between(dt_, begin, end) ==
    time_le(begin, normalise_(dt_, begin)) /\ time_le(normalise_(dt_, end), end)

(***************************************************************************)
(* weather.py: filter_samples                                              *)
(***************************************************************************)
\* a faulty variant: hours of today that have already passed are kept
Relevant_NoNowCheck(sample, now, begin, end) ==
    /\ date(astimezone(sample.time, begin.tzinfo)) = date(now)
    /\ is_between(sample.time, begin, end)
\* weather.py:54-58, the condition of the generator
Relevant(sample, now, begin, end) ==
    /\ date(astimezone(sample.time, begin.tzinfo)) = date(now)
    /\ datetime_ge(astimezone(sample.time, begin.tzinfo), now)
    /\ is_between(sample.time, begin, end)

filter_samples(samples_, now, begin, end) ==
    SelectSeq(samples_, LAMBDA sample : Relevant(sample, now, begin, end))

(***************************************************************************)
(* darksky.py: PrecipitationSample.from_json and assess_location.  json_   *)
(* is the hourly data of the response, a sequence of records.              *)
(***************************************************************************)
UTC == 0

\* pytz.utc.localize(datetime.utcfromtimestamp(json_['time']))
from_json(json_) ==
    [time |-> [utc |-> json_.time, tzinfo |-> UTC],
     probability |-> json_.precipProbability,
     intensity |-> json_.precipIntensity]

assess_location(json_, now, begin, end, threshold) ==
    LET parsed_ == [k \in 1..Len(json_) |-> from_json(json_[k])]
        relevant == SelectSeq(parsed_, LAMBDA sample :
            /\ date(astimezone(sample.time, begin.tzinfo)) = date(now)
            /\ datetime_ge(astimezone(sample.time, begin.tzinfo), now)
            /\ is_between(sample.time, begin, end))
    IN  \E k \in 1..Len(relevant) :
            ScoreAtLeast(umbrella_score(relevant[k]), threshold)

(***************************************************************************)
(* Values the variables of a part hold while another part is exercised.    *)
(***************************************************************************)
ScoreIdle == sPair = <<>> /\ sScores = <<>>

FilterIdle ==
    fSample = None /\ fNow = None /\ fBegin = None /\ fEnd = None /\ fResult = None

RetryIdle ==
    /\ attempts = 0 /\ gap = 0 /\ attempt = 0 /\ response = None
    /\ rpc = "idle" /\ error = None /\ calls = <<>> /\ sleeps = <<>>

MainIdle ==
    /\ TIMEZONE = 0 /\ NOW = None /\ DAY_BEGIN = None /\ DAY_END = None
    /\ SCORE_THRESHOLD = 0 /\ ROUTE = <<>>
    /\ mpc = "idle" /\ idx = 0 /\ samples = <<>> /\ umbrella = None
    /\ temperatures = None /\ published = FALSE
    /\ requested = <<>> /\ parsed = {}

Offsets == (0 - MaxOffset)..MaxOffset

(***************************************************************************)
(* SpecScore: umbrella_score applied to two samples, each with probability *)
(* in [0, 1] and intensity >= 0.                                           *)
(***************************************************************************)
ScoreInputs == [probability : 0..Scale, intensity : 0..MaxIntensity]

ScoreInit ==
    /\ sPair \in ScoreInputs \X ScoreInputs
    /\ sScores = <<>>
    /\ FilterIdle /\ RetryIdle /\ MainIdle

Score ==
    /\ sScores = <<>>
    /\ sScores' = <<umbrella_score(sPair[1]), umbrella_score(sPair[2])>>
    /\ UNCHANGED <<sPair, filterVars, retryVars, configVars, mainVars>>

SpecScore == ScoreInit /\ [][Score]_vars

\* C1: for probability in [0,1] and intensity >= 0, not both 0, the score s
\* returned by umbrella_score satisfies 0 <= s < 1.
C1_ScoreInUnitInterval ==
    sScores # <<>> =>
        \A k \in 1..2 :
            ~(sPair[k].probability = 0 /\ sPair[k].intensity = 0) =>
                /\ 0 <= sScores[k].num
                /\ sScores[k].num < sScores[k].den

\* C2: umbrella_score is monotonically non-decreasing in each argument, the
\* other held fixed, including when the smaller input is (0, 0).
C2_ScoreMonotonic ==
    sScores # <<>> =>
        LET a == sPair[1]
            b == sPair[2]
        IN  \/ a.probability <= b.probability /\ a.intensity = b.intensity
            \/ a.probability = b.probability /\ a.intensity <= b.intensity
            => FracLeq(sScores[1], sScores[2])

(***************************************************************************)
(* SpecFilter: the window filter applied to one sample, for a sample and a *)
(* now that each carry any offset, and a work window in one timezone.      *)
(***************************************************************************)
Instants == FirstInstant..MaxInstant
NowInstants == {FirstInstant, FirstInstant + 11, FirstInstant + 23}
DayBegins == {0, 9}
DayEnds == {9, 17}

\* hourly records of the API: a dry hour scores 0, a rainy one 1 - 1/11
Dry(hour) == [time |-> hour, precipProbability |-> 0, precipIntensity |-> 0,
              apparentTemperature |-> 15]
Rain(hour) == [time |-> hour, precipProbability |-> (9 * Scale) \div 10,
               precipIntensity |-> 2 * Scale, apparentTemperature |-> 8]

\* a rainy sample at the instant of dt_, its time shown in the offset of dt_
Wet(dt_) == [from_json(Rain(dt_.utc)) EXCEPT !.time = dt_]
FilterThreshold == Scale \div 2

FilterInit ==
    /\ fSample \in [utc : Instants, tzinfo : Offsets]
    /\ fNow \in [utc : NowInstants, tzinfo : Offsets]
    /\ \E tz \in Offsets :
        /\ fBegin \in [hour : DayBegins, tzinfo : {tz}]
        /\ fEnd \in [hour : DayEnds, tzinfo : {tz}]
    /\ fResult = None
    /\ ScoreIdle /\ RetryIdle /\ MainIdle

Filter ==
    /\ fResult = None
    /\ fResult' =
        [between |-> is_between(fSample, fBegin, fEnd),
         kept |-> Len(filter_samples(<<Wet(fSample)>>, fNow, fBegin, fEnd)) = 1,
         assessed |-> assess_location(<<Rain(fSample.utc)>>, fNow, fBegin, fEnd,
                                      FilterThreshold)]
    /\ UNCHANGED <<fSample, fNow, fBegin, fEnd, scoreVars, retryVars,
                   configVars, mainVars>>

SpecFilter == FilterInit /\ [][Filter]_vars

\* the calendar day and the hour of the day of an instant, in a timezone
LocalDay(utc, tz) == (utc + tz) \div HoursPerDay
LocalHour(utc, tz) == (utc + tz) % HoursPerDay

\* C6: the date condition compares the sample's date and now's date after
\* converting both into the timezone of begin/end: a sample is dropped when the
\* two dates differ, and is not dropped on the date condition when they are
\* equal (it is then kept exactly when it is not before now and is within the
\* work window).
C6_DateInWindowTimezone ==
    fResult # None =>
        LET tz == fBegin.tzinfo
            sameDay == LocalDay(fSample.utc, tz) = LocalDay(fNow.utc, tz)
            others == /\ fSample.utc >= fNow.utc
                      /\ fBegin.hour <= LocalHour(fSample.utc, tz)
                      /\ LocalHour(fSample.utc, tz) <= fEnd.hour
        IN  /\ ~sameDay => ~fResult.kept /\ ~fResult.assessed
            /\ sameDay => (fResult.kept <=> others) /\ (fResult.assessed <=> others)

\* C7: is_between(dt, begin, end) is true exactly when
\* begin <= timeOfDay(dt in the timezone of begin/end) <= end, both ends
\* inclusive, whatever offset dt carries.
C7_IsBetweenInclusive ==
    fResult # None =>
        (fResult.between <=>
            /\ fBegin.hour <= LocalHour(fSample.utc, fBegin.tzinfo)
            /\ LocalHour(fSample.utc, fBegin.tzinfo) <= fEnd.hour)

\* C7 witness: a sample shown in another offset than the window's, whose local
\* hour is the begin or the end of the window, was admitted.
C7_Witness ==
    /\ fResult # None
    /\ fSample.tzinfo # fBegin.tzinfo
    /\ fBegin.hour < fEnd.hour
    /\ LocalHour(fSample.utc, fBegin.tzinfo) = fEnd.hour
    /\ time(fSample) > fEnd.hour
    /\ fResult.between

(***************************************************************************)
(* util.py: retry_loop.  rpc is its position: "loop" at the while test,    *)
(* "sleep" at time.sleep(gap), "returned" after return response, "raised"  *)
(* after raise RuntimeError, "attribute_error" when response.url is read   *)
(* of None.  calls is the status code of every request() made, sleeps the  *)
(* duration of every time.sleep() made.                                    *)
(***************************************************************************)
OK == 200
DefaultAttempts == 3
DefaultGap == 60

RetryTerminal == {"returned", "raised", "attribute_error"}

\* util.py:83, the while condition (and a faulty variant, one attempt too many)
LoopCondition_OffByOne == attempt <= attempts
LoopCondition == attempt < attempts

\* util.py:85, the test of the response (and a faulty variant, never satisfied)
IsOk_Never(response_) == FALSE
IsOk(response_) == response_.status_code = OK

\* what request() may answer: on its own any status and no body; called for a
\* route point, success with any forecast body or one failure status
StatusCodes == {OK, 404, 500}
ForecastHours == {FirstInstant + 8, FirstInstant + 17,
                  FirstInstant + HoursPerDay + 10}
\* hourly data: at most one record an hour, in increasing order of time
RECURSIVE HourlyData(_)
HourlyData(hours) ==
    IF hours = {} THEN {<<>>}
    ELSE LET h == CHOOSE x \in hours : \A y \in hours : x <= y
             rest == HourlyData(hours \ {h})
         IN  rest \cup {<<Dry(h)>> \o r : r \in rest}
                  \cup {<<Rain(h)>> \o r : r \in rest}
Replies ==
    IF mpc = "idle"
    THEN [status_code : StatusCodes, body : {<<>>}]
    ELSE [status_code : {OK}, body : HourlyData(ForecastHours)]
         \cup [status_code : {500}, body : {<<>>}]

RetryRequest ==
    /\ rpc = "loop"
    /\ LoopCondition
    /\ \E reply \in Replies :
        /\ response' = [status_code |-> reply.status_code, body |-> reply.body,
                        call |-> Len(calls) + 1]
        /\ calls' = Append(calls, reply.status_code)
    /\ IF IsOk(response')
       THEN rpc' = "returned" /\ UNCHANGED attempt
       ELSE rpc' = "sleep" /\ attempt' = attempt + 1
    /\ UNCHANGED <<attempts, gap, error, sleeps>>
    /\ UNCHANGED <<scoreVars, filterVars, configVars, mainVars>>

RetrySleep ==
    /\ rpc = "sleep"
    /\ sleeps' = Append(sleeps, gap)
    /\ rpc' = "loop"
    /\ UNCHANGED <<attempts, gap, attempt, response, error, calls>>
    /\ UNCHANGED <<scoreVars, filterVars, configVars, mainVars>>

RetryExhausted ==
    /\ rpc = "loop"
    /\ ~LoopCondition
    /\ IF response = None
       THEN rpc' = "attribute_error" /\ UNCHANGED error
       ELSE rpc' = "raised" /\ error' = [attempts |-> attempts, response |-> response]
    /\ UNCHANGED <<attempts, gap, attempt, response, calls, sleeps>>
    /\ UNCHANGED <<scoreVars, filterVars, configVars, mainVars>>

Gaps == {1, DefaultGap}

RetryInit ==
    /\ attempts \in 0..MaxAttempts
    /\ gap \in Gaps
    /\ attempt = 0
    /\ response = None
    /\ rpc = "loop"
    /\ error = None
    /\ calls = <<>>
    /\ sleeps = <<>>
    /\ ScoreIdle /\ FilterIdle /\ MainIdle

RetryNext == RetryRequest \/ RetrySleep \/ RetryExhausted

SpecRetry == RetryInit /\ [][RetryNext]_vars

Failed(k) == \A j \in 1..k : calls[j] # OK

\* C3: when request fails on its first k-1 calls and succeeds on call k,
\* 1 <= k <= attempts, retry_loop returns the response of call k, has called
\* request exactly k times and slept exactly k-1 times, and makes no further
\* call or sleep after the successful response.
C3_ReturnsOnSuccess ==
    /\ [](LET k == Len(calls)
          IN  (k >= 1 /\ Failed(k - 1) /\ calls[k] = OK) =>
                /\ rpc = "returned"
                /\ k <= attempts
                /\ response.call = k /\ response.status_code = OK
                /\ Len(sleeps) = k - 1
                /\ \A j \in 1..(k - 1) : sleeps[j] = gap)
    /\ [][rpc = "returned" => UNCHANGED <<rpc, response, calls, sleeps>>]_vars

\* C3 witness: the request failed twice and succeeded on the third call.
C3_Witness ==
    /\ rpc = "returned" /\ attempts = 3
    /\ Len(calls) = 3 /\ Failed(2) /\ calls[3] = OK

\* C4: when every request call returns a non-success status and attempts >= 1,
\* request is called exactly attempts times, no response is returned and the
\* call ends in the RuntimeError built from the last response received.
C4_RaisesAfterAttempts ==
    (attempts >= 1 /\ Failed(Len(calls))) =>
        /\ Len(calls) <= attempts
        /\ rpc # "returned"
        /\ rpc \in RetryTerminal =>
            /\ rpc = "raised"
            /\ Len(calls) = attempts
            /\ error.attempts = attempts
            /\ error.response.call = attempts
            /\ error.response.status_code = calls[attempts]
        /\ rpc \notin RetryTerminal => error = None

\* C4 witness: two attempts, both failed, the error raised.
C4_Witness ==
    /\ rpc = "raised" /\ attempts = 2
    /\ Len(calls) = 2 /\ Failed(2)

\* C5: retry_loop sleeps after a failed attempt only when another attempt
\* follows: a run that exhausts its attempts has slept exactly attempts-1 times.
C5_NoSleepAfterLastAttempt ==
    rpc = "raised" => Len(sleeps) = attempts - 1

(***************************************************************************)
(* darksky.py: HourSample and location_hourly, which weather.py calls.     *)
(* location_hourly fetches the forecast of one route point through         *)
(* retry_loop and parses every hourly record; an HourSample is a           *)
(* PrecipitationSample that also carries the apparent temperature.         *)
(***************************************************************************)
HourSample_from_json(json_) ==
    [time |-> from_json(json_).time,
     probability |-> from_json(json_).probability,
     intensity |-> from_json(json_).intensity,
     apparent_temp |-> json_.apparentTemperature]

location_hourly(body) == [k \in 1..Len(body) |-> HourSample_from_json(body[k])]

(***************************************************************************)
(* weather.py: main.  mpc is its position.                                 *)
(***************************************************************************)
MainTerminal ==
    {"route_error", "no_hours_error", "fetch_error", "value_error", "done"}

Range(seq) == {seq[k] : k \in 1..Len(seq)}
Min(S) == CHOOSE x \in S : \A y \in S : x <= y
Max(S) == CHOOSE x \in S : \A y \in S : x >= y

MainTimezones == {0, 1}
MainNows == {FirstInstant + 7, FirstInstant + 13, FirstInstant + 17}
Thresholds == {Scale \div 2, Scale}

Init ==
    /\ TIMEZONE \in MainTimezones
    /\ NOW \in [utc : MainNows, tzinfo : {TIMEZONE}]
    /\ DAY_BEGIN = [hour |-> 9, tzinfo |-> TIMEZONE]
    /\ DAY_END = [hour |-> 17, tzinfo |-> TIMEZONE]
    /\ SCORE_THRESHOLD \in Thresholds
    /\ ROUTE \in {[k \in 1..n |-> k] : n \in 0..MaxRoute}
    /\ mpc = "start"
    /\ idx = 0
    /\ samples = <<>>
    /\ umbrella = None
    /\ temperatures = None
    /\ published = FALSE
    /\ requested = <<>>
    /\ parsed = {}
    /\ ScoreIdle /\ FilterIdle /\ RetryIdle

\* weather.py:67-73.  _NOW.time() is naive and _DAY_END carries a pytz zone
\* whose utcoffset(None) is None, so the base times are compared.
MainStart ==
    /\ mpc = "start"
    /\ IF Len(ROUTE) = 0
       THEN mpc' = "route_error" /\ UNCHANGED idx
       ELSE IF time(NOW) > DAY_END.hour
       THEN mpc' = "no_hours_error" /\ UNCHANGED idx
       ELSE mpc' = "fetch" /\ idx' = 1
    /\ UNCHANGED <<samples, umbrella, temperatures, published, requested, parsed>>
    /\ UNCHANGED <<scoreVars, filterVars, retryVars, configVars>>

\* weather.py:76, for the next route point: location_hourly enters retry_loop
MainCallLocation ==
    /\ mpc = "fetch"
    /\ idx <= Len(ROUTE)
    /\ mpc' = "await"
    /\ requested' = Append(requested, ROUTE[idx])
    /\ attempts' = DefaultAttempts
    /\ gap' = DefaultGap
    /\ attempt' = 0
    /\ response' = None
    /\ rpc' = "loop"
    /\ error' = None
    /\ calls' = <<>>
    /\ sleeps' = <<>>
    /\ UNCHANGED <<idx, samples, umbrella, temperatures, published, parsed>>
    /\ UNCHANGED <<scoreVars, filterVars, configVars>>

\* weather.py:74-82: the point's samples are parsed, filtered and chained
MainLocationReturned ==
    /\ mpc = "await"
    /\ rpc = "returned"
    /\ LET hourly == location_hourly(response.body)
       IN  /\ samples' = samples \o filter_samples(hourly, NOW, DAY_BEGIN, DAY_END)
           /\ parsed' = parsed \cup Range(hourly)
    /\ idx' = idx + 1
    /\ mpc' = "fetch"
    /\ attempts' = 0 /\ gap' = 0 /\ attempt' = 0 /\ response' = None
    /\ rpc' = "idle" /\ error' = None /\ calls' = <<>> /\ sleeps' = <<>>
    /\ UNCHANGED <<umbrella, temperatures, published, requested>>
    /\ UNCHANGED <<scoreVars, filterVars, configVars>>

\* a faulty variant: the failed route point is skipped
MainLocationRaised_SkipPoint ==
    /\ mpc = "await"
    /\ rpc = "raised"
    /\ idx' = idx + 1
    /\ mpc' = "fetch"
    /\ attempts' = 0 /\ gap' = 0 /\ attempt' = 0 /\ response' = None
    /\ rpc' = "idle" /\ error' = None /\ calls' = <<>> /\ sleeps' = <<>>
    /\ UNCHANGED <<samples, umbrella, temperatures, published, requested, parsed>>
    /\ UNCHANGED <<scoreVars, filterVars, configVars>>
\* weather.py:74-82: nothing catches retry_loop's RuntimeError
MainLocationRaised ==
    /\ mpc = "await"
    /\ rpc = "raised"
    /\ mpc' = "fetch_error"
    /\ UNCHANGED <<idx, samples, umbrella, temperatures, published, requested, parsed>>
    /\ UNCHANGED <<scoreVars, filterVars, retryVars, configVars>>

\* weather.py:84-86
MainUmbrella ==
    /\ mpc = "fetch"
    /\ idx > Len(ROUTE)
    /\ LET over_threshold == SelectSeq(samples, LAMBDA sample :
                ScoreAtLeast(umbrella_score(sample), SCORE_THRESHOLD))
       IN  umbrella' = [required |-> Len(over_threshold) > 0]
    /\ mpc' = "temperatures"
    /\ UNCHANGED <<idx, samples, temperatures, published, requested, parsed>>
    /\ UNCHANGED <<scoreVars, filterVars, retryVars, configVars>>

\* weather.py:95-98: min() of an empty list raises ValueError
MainTemperatures ==
    /\ mpc = "temperatures"
    /\ IF samples = <<>>
       THEN mpc' = "value_error" /\ UNCHANGED temperatures
       ELSE LET temps == {samples[k].apparent_temp : k \in 1..Len(samples)}
            IN  /\ temperatures' = [low |-> Min(temps), high |-> Max(temps)]
                /\ mpc' = "publish"
    /\ UNCHANGED <<idx, samples, umbrella, published, requested, parsed>>
    /\ UNCHANGED <<scoreVars, filterVars, retryVars, configVars>>

\* weather.py:100-111
MainPublish ==
    /\ mpc = "publish"
    /\ published' = TRUE
    /\ mpc' = "done"
    /\ UNCHANGED <<idx, samples, umbrella, temperatures, requested, parsed>>
    /\ UNCHANGED <<scoreVars, filterVars, retryVars, configVars>>

Next ==
    \/ MainStart
    \/ MainCallLocation
    \/ RetryRequest
    \/ RetrySleep
    \/ RetryExhausted
    \/ MainLocationReturned
    \/ MainLocationRaised
    \/ MainUmbrella
    \/ MainTemperatures
    \/ MainPublish

Spec == Init /\ [][Next]_vars

\* the claims' reading of the window filter, for a sample parsed from the API:
\* same date as now, not before now, hour of the day within [begin, end], all
\* in the configured timezone
InWindow(sample) ==
    /\ LocalDay(sample.time.utc, TIMEZONE) = LocalDay(NOW.utc, TIMEZONE)
    /\ sample.time.utc >= NOW.utc
    /\ DAY_BEGIN.hour <= LocalHour(sample.time.utc, TIMEZONE)
    /\ LocalHour(sample.time.utc, TIMEZONE) <= DAY_END.hour

\* C8: with a non-empty route, all fetches successful and zero samples left
\* after filtering, main ends in its no-forecast-data error: not in the
\* min/max over an empty list, not in another error, and nothing is published.
C8_NoForecastDataError ==
    (/\ mpc \in MainTerminal
     /\ Len(ROUTE) > 0
     /\ idx > Len(ROUTE)
     /\ samples = <<>>) =>
        mpc = "no_hours_error" /\ ~published

\* C9: route points are fetched in route order, and when the fetch of point j
\* exhausts its attempts the error leaves main at once: no later point is
\* fetched, no umbrella decision is made, nothing is published.
C9_FetchFailsFast ==
    /\ [](requested = SubSeq(ROUTE, 1, Len(requested)))
    /\ [](mpc = "fetch_error" =>
            /\ rpc = "raised"
            /\ Len(calls) = DefaultAttempts
            /\ Len(requested) = idx
            /\ umbrella = None
            /\ ~published)
    /\ [][(rpc = "raised" \/ mpc = "fetch_error") =>
            /\ mpc' = "fetch_error"
            /\ UNCHANGED <<requested, calls, umbrella, published>>]_vars

\* C9 witness: the first of two route points exhausted its attempts.
C9_Witness ==
    /\ mpc = "fetch_error"
    /\ idx = 1
    /\ Len(ROUTE) = 2

\* C10: the umbrella decision is true iff at least one sample that passed the
\* window filter, from any route point, scores at or over the threshold;
\* samples in the past, on another date or outside the window do not count.
C10_DecisionFromWindowOnly ==
    /\ umbrella # None =>
        (umbrella.required <=>
            \E sample \in parsed :
                /\ InWindow(sample)
                /\ ScoreAtLeast(umbrella_score(sample), SCORE_THRESHOLD))
    /\ (mpc = "await" /\ rpc = "returned") =>
        (assess_location(response.body, NOW, DAY_BEGIN, DAY_END, SCORE_THRESHOLD) <=>
            \E k \in 1..Len(response.body) :
                /\ InWindow(from_json(response.body[k]))
                /\ ScoreAtLeast(umbrella_score(from_json(response.body[k])),
                                SCORE_THRESHOLD))

\* C10 witness: two route points, rainy samples in the past and on the next
\* day were parsed, and the decision is that no umbrella is needed.
C10_Witness ==
    /\ umbrella # None
    /\ ~umbrella.required
    /\ Len(ROUTE) = 2
    /\ \E sample \in parsed :
        /\ sample.time.utc < NOW.utc
        /\ ScoreAtLeast(umbrella_score(sample), SCORE_THRESHOLD)
    /\ \E sample \in parsed :
        /\ LocalDay(sample.time.utc, TIMEZONE) # LocalDay(NOW.utc, TIMEZONE)
        /\ ScoreAtLeast(umbrella_score(sample), SCORE_THRESHOLD)

====
